---- MODULE Spec2Model ----
(***************************************************************************)
(* Model of the scrapbox-to-obsidian transcoder (src/main.py).             *)
(*                                                                         *)
(* A Python str is modelled as a sequence of one-character strings, so     *)
(* that prefix tests, stripping and concatenation are computed the way the *)
(* code computes them.  Six specifications share the variables:            *)
(*   SpecLinkish  applies convert_linkish to one span content,             *)
(*   SpecLine     applies convert_normal_line to one source line,          *)
(*   Spec         runs the loop of convert_page over the lines of a page,  *)
(*   SpecLang     applies convert_filename_to_lang to one file name,       *)
(*   SpecScan     runs the loop of convert_line_content over a line,       *)
(*   SpecMain     runs the loop of __main__ over the pages of a corpus.    *)
(* The model alphabet has no newline character: a line of a page is one    *)
(* line of text.                                                           *)
(***************************************************************************)
EXTENDS Integers, Sequences, FiniteSets, TLC

VARIABLES
    pc,            \* position of the program: "linkish", "line", "lang", "scan",
                   \* "main", "loop", "written", "done"
    content,       \* convert_linkish: argument content
    entire_line,   \* convert_linkish: argument entire_line
    result,        \* convert_linkish: returned markdown string
    line,          \* convert_normal_line: argument line
    out_line,      \* convert_normal_line: returned string
    lines,         \* convert_page: page_json["lines"]
    idx,           \* convert_page: index of the next line of the for loop
    in_codeblock,  \* convert_page: local in_codeblock
    md_lines,      \* convert_page: local md_lines
    text,          \* convert_page: returned string
    warnings,      \* what log() has printed so far
    opens,         \* convert_page: how often line 198 has emitted an opening fence
    closes,        \* convert_page: how often lines 192 and 204 have emitted a closing fence
    filename,      \* convert_filename_to_lang: argument filename
    lang,          \* convert_filename_to_lang: returned string
    lc,            \* convert_line_content: argument lc
    pos,           \* convert_line_content: index of the next character of the for loop
    scan,          \* convert_line_content: locals mode, link_accum, res (and what it logged)
    lc_out,        \* convert_line_content: returned string
    data,          \* __main__: data["pages"]
    page_no,       \* __main__: index of the next page of the for loop
    title,         \* __main__: local title
    files          \* __main__: the files of dst_dir_path, file name |-> content

langVars == <<filename, lang>>
scanVars == <<lc, pos, scan, lc_out>>
mainVars == <<data, page_no, title, files>>

vars == <<pc, content, entire_line, result, line, out_line,
          lines, idx, in_codeblock, md_lines, text, warnings, opens, closes,
          langVars, scanVars, mainVars>>

(***************************************************************************)
(* Bounds of the model.                                                    *)
(***************************************************************************)
MaxStars == 9
MaxTokens == 3
MaxLineTokens == 4
MaxLines == 4
MaxNameLen == 4
MaxScanLen == 6
MaxPages == 2

(***************************************************************************)
(* String primitives of Python used by the code.                           *)
(***************************************************************************)
\* the backtick character (U+0060), which a TLA+ string cannot contain
BT == "backtick"

Max(a, b) == IF a >= b THEN a ELSE b

\* s * n for a one-character s
Repeat(c, n) == [i \in 1..n |-> c]

\* str.startswith
StartsWith(s, p) == Len(s) >= Len(p) /\ SubSeq(s, 1, Len(p)) = p

\* str.endswith
EndsWith(s, p) == Len(s) >= Len(p) /\ SubSeq(s, Len(s) - Len(p) + 1, Len(s)) = p

\* str.removeprefix
RemovePrefix(s, p) == IF StartsWith(s, p) THEN SubSeq(s, Len(p) + 1, Len(s)) ELSE s

\* str.removesuffix
RemoveSuffix(s, p) == IF EndsWith(s, p) THEN SubSeq(s, 1, Len(s) - Len(p)) ELSE s

\* characters str.lstrip() / str.strip() without argument remove, and \s matches
Whitespace == {" ", "\t"}

\* length of the longest prefix of s made of characters of chars
LeadingRun(s, chars) ==
    CHOOSE k \in 0..Len(s) :
        /\ \A i \in 1..k : s[i] \in chars
        /\ (k = Len(s) \/ s[k + 1] \notin chars)

\* length of the longest suffix of s made of characters of chars
TrailingRun(s, chars) ==
    CHOOSE k \in 0..Len(s) :
        /\ \A i \in (Len(s) - k + 1)..Len(s) : s[i] \in chars
        /\ (k = Len(s) \/ s[Len(s) - k] \notin chars)

\* str.lstrip(chars)
LStrip(s, chars) == SubSeq(s, LeadingRun(s, chars) + 1, Len(s))

\* str.strip(chars)
Strip(s, chars) ==
    LET t == LStrip(s, chars)
    IN  SubSeq(t, 1, Len(t) - TrailingRun(t, chars))

\* str.lower, on the letters of the model alphabet
Lower(s) ==
    [i \in 1..Len(s) |->
        CASE s[i] = "P" -> "p"
          [] s[i] = "Y" -> "y"
          [] s[i] = "T" -> "t"
          [] OTHER -> s[i]]

\* str.rfind("."): 0 when absent (Python: -1), else the 1-based position
RFindDot(s) ==
    IF \E i \in 1..Len(s) : s[i] = "."
    THEN CHOOSE i \in 1..Len(s) : s[i] = "." /\ \A j \in (i + 1)..Len(s) : s[j] # "."
    ELSE 0

(***************************************************************************)
(* convert_filename_to_lang                                                *)
(***************************************************************************)
EXT_PY == <<"p", "y">>
EXT_JS == <<"j", "s">>
LANG_PYTHON == <<"p", "y", "t", "h", "o", "n">>

\* convert_filename_to_lang without the lower() of line 16
convert_filename_to_lang_no_lower(fname) ==
    LET fn == fname
        ix == RFindDot(fn)
        ext == SubSeq(fn, ix + 1, Len(fn))
    IN  IF ix = 0 THEN <<>>
        ELSE IF ext = EXT_PY THEN LANG_PYTHON
        ELSE IF ext = EXT_JS THEN EXT_JS
        ELSE ext

convert_filename_to_lang(fname) ==
    LET fn == Lower(fname)
        ix == RFindDot(fn)
        ext == SubSeq(fn, ix + 1, Len(fn))
    IN  IF ix = 0 THEN <<>>
        ELSE IF ext = EXT_PY THEN LANG_PYTHON
        ELSE IF ext = EXT_JS THEN EXT_JS
        ELSE ext

(***************************************************************************)
(* separate_head: (count, rest)                                            *)
(***************************************************************************)
separate_head(s, symbol) ==
    LET rest == LStrip(s, symbol)
    IN  [count |-> Len(s) - Len(rest), rest |-> rest]

(***************************************************************************)
(* convert_linkish                                                         *)
(***************************************************************************)
STRIKE_PREFIX == <<"-", " ">>
SCRAPBOX_URL == <<"h","t","t","p","s",":","/","/","s","c","r","a","p","b","o","x",".","i","o">>
GYAZO_PREFIX == <<"h","t","t","p","s",":","/","/","g","y","a","z","o",".","c","o","m","/">>
YOUTUBE_PREFIX == <<"h","t","t","p","s",":","/","/","w","w","w",".","y","o","u","t","u","b","e",
                    ".","c","o","m","/","w","a","t","c","h","?","v","=">>
HTTP == <<"h","t","t","p",":","/","/">>
HTTPS == <<"h","t","t","p","s",":","/","/">>
ICON_SUFFIX == <<".","i","c","o","n">>
PNG_SUFFIX == <<".","p","n","g">>

\* the character class of PAT_SYM: \x21-\x2F \x3A-\x40 \x5B-\x60 \x7B-\x7E
SymChars ==
    {"!", "\"", "#", "$", "%", "&", "'", "(", ")", "*", "+", ",", "-", ".", "/",
     ":", ";", "<", "=", ">", "?", "@",
     "[", "\\", "]", "^", "_", BT,
     "{", "|", "}", "~"}

\* re.match(PAT_SYM, content) is not None
MatchPatSym(c) == Len(c) >= 1 /\ c[1] \in SymChars

\* https?://\S+ matched against the whole of u
IsBareUrl(u) ==
    /\ \A i \in 1..Len(u) : u[i] \notin Whitespace
    /\ \/ StartsWith(u, HTTP) /\ Len(u) > Len(HTTP)
       \/ StartsWith(u, HTTPS) /\ Len(u) > Len(HTTPS)

\* re.match(PAT_URL, content): <<>> for None, else <<group(1), group(2)>>.
\* group(2) has no whitespace and follows a whitespace character, so it
\* starts right after the last whitespace character of content.
MatchPatUrl(c) ==
    LET cuts == {k \in 1..Len(c) :
                    /\ c[k] \in Whitespace
                    /\ IsBareUrl(SubSeq(c, k + 1, Len(c)))}
    IN  IF cuts = {} THEN <<>>
        ELSE LET k == CHOOSE k \in cuts : TRUE
             IN  <<SubSeq(c, 1, k), SubSeq(c, k + 1, Len(c))>>

\* the two messages the code passes to log()
WarnBold(c) == <<"large-font bold", c>>
WarnSymbol(c) == <<"special symbol", c>>

\* lines 62-63: the "- " rule
linkish_strike(c) ==
    [out |-> <<"~", "~">> \o RemovePrefix(c, STRIKE_PREFIX) \o <<"~", "~">>, log |-> <<>>]

\* linkish_asterisk with the entire_line test left out
linkish_asterisk_no_entire(c, entire) ==
    LET sh == separate_head(c, {"*"})
        num_asterisk == sh.count
        rest == LStrip(sh.rest, Whitespace)
    IN  IF num_asterisk > 1 THEN
            [out |-> Repeat("#", Max(1, 8 - num_asterisk)) \o <<" ">> \o rest, log |-> <<>>]
        ELSE
            [out |-> <<"*", "*">> \o rest \o <<"*", "*">>, log |-> <<>>]

\* lines 65-73: the leading "*" rule
linkish_asterisk(c, entire) ==
    LET sh == separate_head(c, {"*"})
        num_asterisk == sh.count
        rest == LStrip(sh.rest, Whitespace)
    IN  IF entire /\ num_asterisk > 1 THEN
            [out |-> Repeat("#", Max(1, 8 - num_asterisk)) \o <<" ">> \o rest, log |-> <<>>]
        ELSE
            [out |-> <<"*", "*">> \o rest \o <<"*", "*">>,
             log |-> IF num_asterisk >= 2 THEN <<WarnBold(c)>> ELSE <<>>]

\* lines 76-78: the leading "/" rule
linkish_project(c) ==
    [out |-> <<"[">> \o c \o <<"]", "(">> \o SCRAPBOX_URL \o c \o <<")">>, log |-> <<>>]

\* lines 81-83: the gyazo rule
linkish_gyazo(c) ==
    [out |-> <<"!", "[", "]", "(">> \o c \o PNG_SUFFIX \o <<")">>, log |-> <<>>]

\* lines 86-88: the youtube rule
linkish_youtube(c) ==
    [out |-> <<"!", "[", "]", "(">> \o c \o <<")">>, log |-> <<>>]

\* linkish_url with desc taken from group(1) without strip()
linkish_url_unstripped(m) ==
    LET desc == m[1]
        url == m[2]
    IN  IF desc = <<>> THEN
            [out |-> <<" ">> \o url \o <<" ">>, log |-> <<>>]
        ELSE
            [out |-> <<"[">> \o desc \o <<"]", "(">> \o url \o <<")">>, log |-> <<>>]

\* lines 94-100: the body of "if m:", m the match of PAT_URL
linkish_url(m) ==
    LET desc == Strip(m[1], Whitespace)
        url == m[2]
    IN  IF desc = <<>> THEN
            [out |-> <<" ">> \o url \o <<" ">>, log |-> <<>>]
        ELSE
            [out |-> <<"[">> \o desc \o <<"]", "(">> \o url \o <<")">>, log |-> <<>>]

\* lines 103-105: the ".icon" rule
linkish_icon(c) ==
    [out |-> <<"(">> \o RemoveSuffix(c, ICON_SUFFIX) \o <<")">>, log |-> <<>>]

\* lines 107-110: the PAT_SYM rule
linkish_symbol(c) ==
    [out |-> <<BT>> \o c \o <<BT>>, log |-> <<WarnSymbol(c)>>]

\* line 113: the in-project page link
linkish_page(c) ==
    [out |-> <<"[", "[">> \o c \o <<"]", "]">>, log |-> <<>>]

\* convert_linkish with the ".icon" rule tested before the "/" rule
convert_linkish_icon_first(c, entire) ==
    IF StartsWith(c, STRIKE_PREFIX) THEN linkish_strike(c)
    ELSE IF StartsWith(c, <<"*">>) THEN linkish_asterisk(c, entire)
    ELSE IF EndsWith(c, ICON_SUFFIX) THEN linkish_icon(c)
    ELSE IF StartsWith(c, <<"/">>) THEN linkish_project(c)
    ELSE IF StartsWith(c, GYAZO_PREFIX) THEN linkish_gyazo(c)
    ELSE IF StartsWith(c, YOUTUBE_PREFIX) THEN linkish_youtube(c)
    ELSE IF MatchPatUrl(c) # <<>> THEN linkish_url(MatchPatUrl(c))
    ELSE IF MatchPatSym(c) THEN linkish_symbol(c)
    ELSE linkish_page(c)

\* returns [out |-> the markdown string, log |-> the messages passed to log()]
convert_linkish(c, entire) ==
    IF StartsWith(c, STRIKE_PREFIX) THEN linkish_strike(c)
    ELSE IF StartsWith(c, <<"*">>) THEN linkish_asterisk(c, entire)
    ELSE IF StartsWith(c, <<"/">>) THEN linkish_project(c)
    ELSE IF StartsWith(c, GYAZO_PREFIX) THEN linkish_gyazo(c)
    ELSE IF StartsWith(c, YOUTUBE_PREFIX) THEN linkish_youtube(c)
    ELSE IF MatchPatUrl(c) # <<>> THEN linkish_url(MatchPatUrl(c))
    ELSE IF EndsWith(c, ICON_SUFFIX) THEN linkish_icon(c)
    ELSE IF MatchPatSym(c) THEN linkish_symbol(c)
    ELSE linkish_page(c)

(***************************************************************************)
(* convert_line_content: the scanner, one character at a time.             *)
(* st = [mode, link_accum, res, log]; mode is "None", "code" or "link";    *)
(* res is "".join(res) of the code.                                        *)
(***************************************************************************)
ScanInit == [mode |-> "None", link_accum |-> <<>>, res |-> <<>>, log |-> <<>>]

\* ScanStep with a backtick in link mode accumulated like any other character
ScanStep_accumulate_backtick(st, ch) ==
    IF st.mode = "None" THEN
        IF ch = BT THEN [st EXCEPT !.mode = "code", !.res = Append(@, BT)]
        ELSE IF ch = "[" THEN [st EXCEPT !.mode = "link", !.link_accum = <<>>]
        ELSE [st EXCEPT !.res = Append(@, ch)]
    ELSE IF st.mode = "code" THEN
        IF ch = BT THEN [st EXCEPT !.mode = "None", !.res = Append(@, BT)]
        ELSE [st EXCEPT !.res = Append(@, ch)]
    ELSE
        IF ch = "]" THEN
            LET r == convert_linkish(st.link_accum, FALSE)
            IN  [st EXCEPT !.mode = "None", !.res = @ \o r.out, !.log = @ \o r.log]
        ELSE [st EXCEPT !.link_accum = Append(@, ch)]

\* ScanStep with "[" recognised in code mode as it is in plain mode
ScanStep_span_in_code(st, ch) ==
    IF st.mode = "None" \/ (st.mode = "code" /\ ch = "[") THEN
        IF ch = BT THEN [st EXCEPT !.mode = "code", !.res = Append(@, BT)]
        ELSE IF ch = "[" THEN [st EXCEPT !.mode = "link", !.link_accum = <<>>]
        ELSE [st EXCEPT !.res = Append(@, ch)]
    ELSE IF st.mode = "code" THEN
        IF ch = BT THEN [st EXCEPT !.mode = "None", !.res = Append(@, BT)]
        ELSE [st EXCEPT !.res = Append(@, ch)]
    ELSE
        IF ch = BT THEN [st EXCEPT !.mode = "code", !.res = Append(@, BT)]
        ELSE IF ch = "]" THEN
            LET r == convert_linkish(st.link_accum, FALSE)
            IN  [st EXCEPT !.mode = "None", !.res = @ \o r.out, !.log = @ \o r.log]
        ELSE [st EXCEPT !.link_accum = Append(@, ch)]

\* the body of "for c in lc"
ScanStep(st, ch) ==
    IF st.mode = "None" THEN
        IF ch = BT THEN [st EXCEPT !.mode = "code", !.res = Append(@, BT)]
        ELSE IF ch = "[" THEN [st EXCEPT !.mode = "link", !.link_accum = <<>>]
        ELSE [st EXCEPT !.res = Append(@, ch)]
    ELSE IF st.mode = "code" THEN
        IF ch = BT THEN [st EXCEPT !.mode = "None", !.res = Append(@, BT)]
        ELSE [st EXCEPT !.res = Append(@, ch)]
    ELSE
        IF ch = BT THEN [st EXCEPT !.mode = "code", !.res = Append(@, BT)]
        ELSE IF ch = "]" THEN
            LET r == convert_linkish(st.link_accum, FALSE)
            IN  [st EXCEPT !.mode = "None", !.res = @ \o r.out, !.log = @ \o r.log]
        ELSE [st EXCEPT !.link_accum = Append(@, ch)]

\* the scanner state after the first n characters of lc
RECURSIVE ScanPrefix(_, _)
ScanPrefix(txt, n) == IF n = 0 THEN ScanInit ELSE ScanStep(ScanPrefix(txt, n - 1), txt[n])

convert_line_content(txt) ==
    LET st == ScanPrefix(txt, Len(txt))
    IN  [out |-> st.res, log |-> st.log]

(***************************************************************************)
(* convert_normal_line                                                     *)
(***************************************************************************)
\* re.match(r'^\[[^\]]*\]$', line) is not None
line_is_linkish(l) ==
    /\ Len(l) >= 2
    /\ l[1] = "["
    /\ l[Len(l)] = "]"
    /\ \A i \in 2..(Len(l) - 1) : l[i] # "]"

\* convert_normal_line with one tab per leading whitespace character
convert_normal_line_tabs(l) ==
    IF line_is_linkish(l) THEN
        convert_linkish(Strip(l, {"[", "]"}), TRUE)
    ELSE
        LET sh == separate_head(l, Whitespace)
            num_indents == sh.count
            c == convert_line_content(sh.rest)
        IN  IF num_indents > 0 THEN
                [out |-> Repeat("\t", num_indents) \o <<"*", " ">> \o c.out, log |-> c.log]
            ELSE c

convert_normal_line(l) ==
    IF line_is_linkish(l) THEN
        convert_linkish(Strip(l, {"[", "]"}), TRUE)
    ELSE
        LET sh == separate_head(l, Whitespace)
            num_indents == sh.count
            c == convert_line_content(sh.rest)
        IN  IF num_indents > 0 THEN
                [out |-> Repeat("\t", num_indents - 1) \o <<"*", " ">> \o c.out, log |-> c.log]
            ELSE c

\* the variables of the functions a specification does not call
LangIdle == filename = <<>> /\ lang = <<>>
ScanIdle == lc = <<>> /\ pos = 1 /\ scan = ScanInit /\ lc_out = <<>>
MainIdle == data = <<>> /\ page_no = 1 /\ title = <<>> /\ files = <<>>
PageIdle ==
    /\ lines = <<>> /\ idx = 1 /\ in_codeblock = FALSE /\ md_lines = <<>>
    /\ text = <<>> /\ opens = 0 /\ closes = 0
LinkishIdle == content = <<>> /\ entire_line = FALSE /\ result = <<>>
LineIdle == line = <<>> /\ out_line = <<>>

(***************************************************************************)
(* Inputs of convert_linkish: an asterisk run followed by a few tokens.    *)
(***************************************************************************)
Tokens ==
    {STRIKE_PREFIX, <<"*">>, <<" ">>, <<"\t">>, <<"/">>, <<"a">>, <<"!">>,
     GYAZO_PREFIX, YOUTUBE_PREFIX, HTTP, HTTPS \o <<"u">>, ICON_SUFFIX}

RECURSIVE Flatten(_)
Flatten(ss) == IF ss = <<>> THEN <<>> ELSE Head(ss) \o Flatten(Tail(ss))

TokenSeqs(n) == UNION {[1..k -> Tokens] : k \in 0..n}

Contents ==
    {Repeat("*", n) \o Flatten(ts) : n \in 0..MaxStars, ts \in TokenSeqs(MaxTokens)}

(***************************************************************************)
(* SpecLinkish: one call of convert_linkish.                               *)
(***************************************************************************)
InitLinkish ==
    /\ pc = "linkish"
    /\ content \in Contents
    /\ entire_line \in BOOLEAN
    /\ result = <<>>
    /\ warnings = <<>>
    /\ LineIdle /\ PageIdle /\ LangIdle /\ ScanIdle /\ MainIdle

CallConvertLinkish ==
    /\ pc = "linkish"
    /\ LET r == convert_linkish(content, entire_line)
       IN  /\ result' = r.out
           /\ warnings' = warnings \o r.log
    /\ pc' = "done"
    /\ UNCHANGED <<content, entire_line, line, out_line, lines, idx,
                   in_codeblock, md_lines, text,
                   opens, closes, langVars, scanVars, mainVars>>

NextLinkish == CallConvertLinkish

SpecLinkish == InitLinkish /\ [][NextLinkish]_vars

\* C2: convert_linkish returns the result of the first rule, in the order
\* (1) "- ", (2) "*", (3) "/", (4) gyazo, (5) youtube, (6) text whitespace
\* URL, (7) ".icon", (8) leading punctuation, (9) page link, that matches
\* the content; a content that starts with "/" and ends with ".icon" gives
\* the "/" link, not the parenthesised user name.
C2_FirstMatchingRule ==
    pc = "done" =>
        LET c == content
            matches(i) ==
                CASE i = 1 -> StartsWith(c, <<"-", " ">>)
                  [] i = 2 -> Len(c) > 0 /\ c[1] = "*"
                  [] i = 3 -> Len(c) > 0 /\ c[1] = "/"
                  [] i = 4 -> StartsWith(c, GYAZO_PREFIX)
                  [] i = 5 -> StartsWith(c, YOUTUBE_PREFIX)
                  [] i = 6 -> \E k \in 1..Len(c) :
                                  /\ c[k] \in Whitespace
                                  /\ IsBareUrl(SubSeq(c, k + 1, Len(c)))
                  [] i = 7 -> EndsWith(c, ICON_SUFFIX)
                  [] i = 8 -> Len(c) > 0 /\ c[1] \in SymChars
                  [] OTHER -> TRUE
            first == CHOOSE i \in 1..9 : matches(i) /\ \A j \in 1..(i - 1) : ~matches(j)
            expected ==
                CASE first = 1 -> linkish_strike(c)
                  [] first = 2 -> linkish_asterisk(c, entire_line)
                  [] first = 3 -> linkish_project(c)
                  [] first = 4 -> linkish_gyazo(c)
                  [] first = 5 -> linkish_youtube(c)
                  [] first = 6 -> linkish_url(MatchPatUrl(c))
                  [] first = 7 -> linkish_icon(c)
                  [] first = 8 -> linkish_symbol(c)
                  [] OTHER -> linkish_page(c)
        IN  /\ result = expected.out
            /\ (StartsWith(c, <<"/">>) /\ EndsWith(c, ICON_SUFFIX)) =>
                   /\ result = <<"[">> \o c \o <<"]", "(">> \o SCRAPBOX_URL \o c \o <<")">>
                   /\ result # <<"(">> \o SubSeq(c, 1, Len(c) - 5) \o <<")">>

\* C2 witness: "/a.icon" has been converted to the "/" link
C2_Witness ==
    /\ pc = "done"
    /\ content = <<"/", "a", ".", "i", "c", "o", "n">>
    /\ result = <<"[", "/", "a", ".", "i", "c", "o", "n", "]", "(">>
                \o SCRAPBOX_URL \o <<"/", "a", ".", "i", "c", "o", "n", ")">>

\* C8: for a content that is leading text, whitespace, then an http:// or
\* https:// URL without whitespace running to the end (rules 1-5 not
\* matching): when the leading text trims to empty the result is the URL
\* between two single spaces, otherwise "[" trimmed text "](" URL ")".
C8_TextThenUrl ==
    pc = "done" =>
        \A k \in 1..Len(content) :
            LET lead == SubSeq(content, 1, k - 1)
                url == SubSeq(content, k + 1, Len(content))
                desc == Strip(lead, Whitespace)
            IN  (/\ content[k] \in Whitespace
                 /\ IsBareUrl(url)
                 /\ ~StartsWith(content, <<"-", " ">>)
                 /\ content[1] \notin {"*", "/"}
                 /\ ~StartsWith(content, GYAZO_PREFIX)
                 /\ ~StartsWith(content, YOUTUBE_PREFIX))
                => result = IF desc = <<>>
                            THEN <<" ">> \o url \o <<" ">>
                            ELSE <<"[">> \o desc \o <<"]", "(">> \o url \o <<")">>

\* C8 witness: "a https://u" has been converted to "[a](https://u)"
C8_Witness ==
    /\ pc = "done"
    /\ content = <<"a", " ">> \o HTTPS \o <<"u">>
    /\ result = <<"[", "a", "]", "(">> \o HTTPS \o <<"u", ")">>

\* C9: a content that is just an http:// or https:// URL (not a gyazo or
\* youtube one) is converted to the URL with one space before and one
\* after it, not to a page reference.
C9_BareUrl ==
    (/\ pc = "done"
     /\ IsBareUrl(content)
     /\ ~StartsWith(content, GYAZO_PREFIX)
     /\ ~StartsWith(content, YOUTUBE_PREFIX))
    => result = <<" ">> \o content \o <<" ">>

\* C10: a content that starts with N >= 2 asterisks, converted with
\* entire_line false, gives "**" rest "**" (rest: the content without the
\* asterisk run and the whitespace after it) and exactly one warning;
\* N = 1 gives the same bold form and no warning, whatever entire_line is.
C10_MidLineBold ==
    (pc = "done" /\ Len(content) > 0 /\ content[1] = "*") =>
        LET n == LeadingRun(content, {"*"})
            rest == LStrip(SubSeq(content, n + 1, Len(content)), Whitespace)
            bold == <<"*", "*">> \o rest \o <<"*", "*">>
        IN  /\ (n >= 2 /\ ~entire_line) =>
                   /\ result = bold
                   /\ result[1] # "#"
                   /\ Len(warnings) = 1
                   /\ warnings[1][1] = "large-font bold"
            /\ n = 1 => (result = bold /\ warnings = <<>>)

\* C10 witness: "** a" has been converted mid-line to "**a**" with a warning
C10_Witness ==
    /\ pc = "done"
    /\ ~entire_line
    /\ content = <<"*", "*", " ", "a">>
    /\ result = <<"*", "*", "a", "*", "*">>
    /\ Len(warnings) = 1

(***************************************************************************)
(* SpecLine: one call of convert_normal_line.  A line is a few tokens,     *)
(* or "[", an asterisk run and a few tokens.                               *)
(***************************************************************************)
LineTokens == {<<"[">>, <<"]">>, <<" ">>, <<"\t">>, <<"a">>, <<BT>>, <<"*">>}

LineTokenSeqs(n) == UNION {[1..k -> LineTokens] : k \in 0..n}

LineInputs ==
    {Flatten(ts) : ts \in LineTokenSeqs(MaxLineTokens)}
    \cup {<<"[">> \o Repeat("*", n) \o Flatten(ts) :
             n \in 1..MaxStars, ts \in LineTokenSeqs(MaxLineTokens)}

InitLine ==
    /\ pc = "line"
    /\ line \in LineInputs
    /\ out_line = <<>>
    /\ warnings = <<>>
    /\ LinkishIdle /\ PageIdle /\ LangIdle /\ ScanIdle /\ MainIdle

CallConvertNormalLine ==
    /\ pc = "line"
    /\ LET r == convert_normal_line(line)
       IN  /\ out_line' = r.out
           /\ warnings' = warnings \o r.log
    /\ pc' = "done"
    /\ UNCHANGED <<content, entire_line, result, line, lines, idx,
                   in_codeblock, md_lines, text,
                   opens, closes, langVars, scanVars, mainVars>>

NextLine == CallConvertNormalLine

SpecLine == InitLine /\ [][NextLine]_vars

\* C3: for N >= 2 a line that is exactly "[" N asterisks " X" "]" (X: text
\* that does not start with whitespace) is converted to max(1, 8 - N)
\* characters "#", one space, then X.
C3_HeadingLevel ==
    pc = "done" =>
        \A n \in 2..Len(line) :
            LET x == SubSeq(line, n + 3, Len(line) - 1)
            IN  (/\ Len(line) >= n + 3
                 /\ line_is_linkish(line)
                 /\ \A i \in 2..(n + 1) : line[i] = "*"
                 /\ line[n + 2] = " "
                 /\ (x = <<>> \/ x[1] \notin Whitespace))
                => out_line = Repeat("#", Max(1, 8 - n)) \o <<" ">> \o x

\* C4: for a line that is an entire-line span the output is the span
\* decision, with entire_line true, of the line without its first and its
\* last character, with no list marker or indentation added.
C4_EnclosingBracketsRemoved ==
    (pc = "done" /\ line_is_linkish(line)) =>
        out_line = convert_linkish(SubSeq(line, 2, Len(line) - 1), TRUE).out

\* C5: for a line that is not an entire-line span, with depth the length
\* of its leading run of spaces and tabs: the output is depth - 1 tabs,
\* "* " and the inline conversion of the remainder when depth > 0, and the
\* inline conversion of the line when depth = 0; the empty line gives the
\* empty output line.
C5_IndentToList ==
    (pc = "done" /\ ~line_is_linkish(line)) =>
        LET depth == Cardinality({k \in 1..Len(line) :
                                     \A i \in 1..k : line[i] \in {" ", "\t"}})
            remainder == SubSeq(line, depth + 1, Len(line))
        IN  /\ depth > 0 =>
                   out_line = [i \in 1..(depth - 1) |-> "\t"] \o <<"*", " ">>
                              \o convert_line_content(remainder).out
            /\ depth = 0 => out_line = convert_line_content(line).out
            /\ line = <<>> => out_line = <<>>

\* C5 witness: "\t\ta" has been converted to "\t* a"
C5_Witness ==
    /\ pc = "done"
    /\ line = <<"\t", "\t", "a">>
    /\ out_line = <<"\t", "*", " ", "a">>

\* C13: an entire-line span with 8 or more leading asterisks is converted
\* to a level-1 heading ("# " and the text) and a warning about the loss of
\* information is emitted for it.
C13_ClampedHeadingWarns ==
    (/\ pc = "done"
     /\ line_is_linkish(line)
     /\ Len(line) >= 10
     /\ \A i \in 2..9 : line[i] = "*")
    => /\ out_line[1] = "#"
       /\ out_line[2] = " "
       /\ warnings # <<>>

(***************************************************************************)
(* Spec: convert_page, one iteration of "for line in page_json['lines']"   *)
(* per step, then the code after the loop.                                 *)
(***************************************************************************)
CODE_PREFIX == <<"c", "o", "d", "e", ":">>
FENCE == <<BT, BT, BT>>

PageLines ==
    {<<"c", "o", "d", "e", ":", "x", ".", "p", "y">>,
     <<" ", "p">>,
     <<" ", " ", "[", "a", "]">>,
     <<"d">>,
     <<>>,
     <<"[", "*", "*", " ", "h", "]">>,
     <<" ", "c", "o", "d", "e", ":", "y">>}

Pages == UNION {[1..k -> PageLines] : k \in 0..MaxLines}

\* "\n".join(ls)
RECURSIVE Join(_)
Join(ls) ==
    IF ls = <<>> THEN <<>>
    ELSE IF Len(ls) = 1 THEN ls[1]
    ELSE ls[1] \o <<"\n">> \o Join(Tail(ls))

Init ==
    /\ pc = "loop"
    /\ lines \in Pages
    /\ idx = 1
    /\ in_codeblock = FALSE
    /\ md_lines = <<>>
    /\ text = <<>>
    /\ warnings = <<>>
    /\ opens = 0
    /\ closes = 0
    /\ LinkishIdle /\ LineIdle /\ LangIdle /\ ScanIdle /\ MainIdle

\* CodeLine with every leading space removed
CodeLine_lstrip ==
    /\ pc = "loop" /\ idx <= Len(lines)
    /\ in_codeblock
    /\ StartsWith(lines[idx], <<" ">>)
    /\ md_lines' = Append(md_lines, LStrip(lines[idx], {" "}))
    /\ idx' = idx + 1
    /\ UNCHANGED <<pc, in_codeblock, text, warnings,
                   lines, content, entire_line, result, line, out_line,
                   opens, closes, langVars, scanVars, mainVars>>

\* lines 188-189: a line of an open region
CodeLine ==
    /\ pc = "loop" /\ idx <= Len(lines)
    /\ in_codeblock
    /\ StartsWith(lines[idx], <<" ">>)
    /\ md_lines' = Append(md_lines, RemovePrefix(lines[idx], <<" ">>))
    /\ idx' = idx + 1
    /\ UNCHANGED <<pc, in_codeblock, text, warnings,
                   lines, content, entire_line, result, line, out_line,
                   opens, closes, langVars, scanVars, mainVars>>

\* CloseFence that leaves in_codeblock set
CloseFence_stays_open ==
    /\ pc = "loop" /\ idx <= Len(lines)
    /\ in_codeblock
    /\ ~StartsWith(lines[idx], <<" ">>)
    /\ md_lines' = Append(md_lines, FENCE)
    /\ closes' = closes + 1
    /\ idx' = idx + 1
    /\ UNCHANGED <<pc, in_codeblock, text, warnings,
                   lines, content, entire_line, result, line, out_line,
                   opens, langVars, scanVars, mainVars>>

\* lines 190-192: a line that ends the open region
CloseFence ==
    /\ pc = "loop" /\ idx <= Len(lines)
    /\ in_codeblock
    /\ ~StartsWith(lines[idx], <<" ">>)
    /\ in_codeblock' = FALSE
    /\ md_lines' = Append(md_lines, FENCE)
    /\ closes' = closes + 1
    /\ idx' = idx + 1
    /\ UNCHANGED <<pc, text, warnings,
                   lines, content, entire_line, result, line, out_line,
                   opens, langVars, scanVars, mainVars>>

\* lines 194-198: a "code:" line outside a region
OpenFence ==
    /\ pc = "loop" /\ idx <= Len(lines)
    /\ ~in_codeblock
    /\ StartsWith(lines[idx], CODE_PREFIX)
    /\ in_codeblock' = TRUE
    /\ LET fname == RemovePrefix(lines[idx], CODE_PREFIX)
       IN  md_lines' = md_lines \o <<<<BT>> \o fname \o <<BT>>,
                                     FENCE \o convert_filename_to_lang(fname)>>
    /\ opens' = opens + 1
    /\ idx' = idx + 1
    /\ UNCHANGED <<pc, text, warnings,
                   lines, content, entire_line, result, line, out_line,
                   closes, langVars, scanVars, mainVars>>

\* lines 199-200: any other line outside a region
NormalLine ==
    /\ pc = "loop" /\ idx <= Len(lines)
    /\ ~in_codeblock
    /\ ~StartsWith(lines[idx], CODE_PREFIX)
    /\ LET r == convert_normal_line(lines[idx])
       IN  /\ md_lines' = Append(md_lines, r.out)
           /\ warnings' = warnings \o r.log
    /\ idx' = idx + 1
    /\ UNCHANGED <<pc, in_codeblock, text,
                   lines, content, entire_line, result, line, out_line,
                   opens, closes, langVars, scanVars, mainVars>>

\* EndPage without the closing fence of an open region
EndPage_no_close ==
    /\ pc = "loop" /\ idx > Len(lines)
    /\ in_codeblock' = FALSE
    /\ md_lines' = md_lines \o <<<<>>>>
    /\ text' = Join(md_lines')
    /\ pc' = "done"
    /\ UNCHANGED <<idx, warnings, lines, content, entire_line, result, line, out_line,
                   opens, closes, langVars, scanVars, mainVars>>

\* lines 202-207: after the loop
EndPage ==
    /\ pc = "loop" /\ idx > Len(lines)
    /\ in_codeblock' = FALSE
    /\ md_lines' = (IF in_codeblock THEN Append(md_lines, FENCE) ELSE md_lines) \o <<<<>>>>
    /\ closes' = IF in_codeblock THEN closes + 1 ELSE closes
    /\ text' = Join(md_lines')
    /\ pc' = "done"
    /\ UNCHANGED <<idx, warnings, lines, content, entire_line, result, line, out_line,
                   opens, langVars, scanVars, mainVars>>

Next == CodeLine \/ CloseFence \/ OpenFence \/ NormalLine \/ EndPage

Spec == Init /\ [][Next]_vars

\* C1: when a region is open and the next line does not start with a
\* space, a closing fence is emitted and then that same line is converted
\* as a normal line and emitted after the fence; the line is never dropped.
C1_ClosingLineConverted ==
    [][(pc = "loop" /\ idx <= Len(lines) /\ in_codeblock
        /\ ~StartsWith(lines[idx], <<" ">>))
       => /\ Len(md_lines') >= Len(md_lines) + 2
          /\ md_lines'[Len(md_lines) + 1] = FENCE
          /\ ~StartsWith(lines[idx], CODE_PREFIX) =>
                 md_lines' = md_lines \o <<FENCE, convert_normal_line(lines[idx]).out>>]_vars

\* C6: while a region is open, a line that starts with a space is emitted
\* as that line without its first character and nothing else changed, and
\* the region stays open.
C6_CodeLineVerbatim ==
    [][(pc = "loop" /\ idx <= Len(lines) /\ in_codeblock
        /\ lines[idx] # <<>> /\ lines[idx][1] = " ")
       => /\ md_lines' = Append(md_lines, Tail(lines[idx]))
          /\ in_codeblock']_vars

\* C6 witness: "  [a]" has been read in an open region and emitted as " [a]"
C6_Witness ==
    /\ pc = "loop"
    /\ in_codeblock
    /\ idx > 1
    /\ lines[idx - 1] = <<" ", " ", "[", "a", "]">>
    /\ md_lines[Len(md_lines)] = <<" ", "[", "a", "]">>

\* C7: at the end of the lines, an open region gets exactly one closing
\* fence, after everything emitted so far and immediately before the
\* trailing empty line; with no open region only the empty line is added.
C7_CloseAtEnd ==
    [][(pc = "loop" /\ idx > Len(lines))
       => md_lines' = md_lines \o (IF in_codeblock THEN <<FENCE>> ELSE <<>>) \o <<<<>>>>]_vars

\* C7 witness: the page "code:x.py", " p" has been converted; its region
\* was open at the end
C7_Witness ==
    /\ pc = "done"
    /\ lines = <<<<"c", "o", "d", "e", ":", "x", ".", "p", "y">>, <<" ", "p">>>>
    /\ md_lines = <<<<BT, "x", ".", "p", "y", BT>>,
                    FENCE \o <<"p", "y", "t", "h", "o", "n">>,
                    <<"p">>,
                    FENCE,
                    <<>>>>

\* C18: after any prefix of the lines of a page, the opening fences emitted
\* minus the closing fences emitted is 1 when the region is open and 0 when
\* it is not (so regions never nest), and on return the two counts are equal.
C18_FenceBalance ==
    /\ opens - closes = (IF in_codeblock THEN 1 ELSE 0)
    /\ pc = "done" => opens = closes

\* C18 witness: a second region is open after the first was closed
C18_Witness ==
    /\ pc = "loop"
    /\ in_codeblock
    /\ opens = 2
    /\ closes = 1

(***************************************************************************)
(* SpecLang: one call of convert_filename_to_lang.                         *)
(***************************************************************************)
NameChars == {"x", ".", "p", "y", "P", "Y", "T", "j", "s"}

Filenames == UNION {[1..k -> NameChars] : k \in 0..MaxNameLen}

InitLang ==
    /\ pc = "lang"
    /\ filename \in Filenames
    /\ lang = <<>>
    /\ warnings = <<>>
    /\ LinkishIdle /\ LineIdle /\ PageIdle /\ ScanIdle /\ MainIdle

CallConvertFilenameToLang ==
    /\ pc = "lang"
    /\ lang' = convert_filename_to_lang(filename)
    /\ pc' = "done"
    /\ UNCHANGED <<filename, content, entire_line, result, line, out_line,
                   lines, idx, in_codeblock, md_lines, text, warnings, opens, closes,
                   scanVars, mainVars>>

NextLang == CallConvertFilenameToLang

SpecLang == InitLang /\ [][NextLang]_vars

\* C12 as stated: an extension that is not recognised is the language tag
\* exactly as written in the file name; no dot gives the empty tag; py and
\* js in any letter case give python and js.
C12_ExtensionAsWritten ==
    pc = "done" =>
        LET dots == {i \in 1..Len(filename) : filename[i] = "."}
        IN  IF dots = {} THEN lang = <<>>
            ELSE LET last == CHOOSE i \in dots : \A j \in dots : j <= i
                     ext == SubSeq(filename, last + 1, Len(filename))
                 IN  lang = IF Lower(ext) = <<"p", "y">> THEN <<"p", "y", "t", "h", "o", "n">>
                            ELSE IF Lower(ext) = <<"j", "s">> THEN <<"j", "s">>
                            ELSE ext

\* C12 as amended: an extension that is not recognised is the language tag
\* in lower case; no dot gives the empty tag; py and js in any letter case
\* give python and js.
C12_ExtensionLowercased ==
    pc = "done" =>
        LET dots == {i \in 1..Len(filename) : filename[i] = "."}
        IN  IF dots = {} THEN lang = <<>>
            ELSE LET last == CHOOSE i \in dots : \A j \in dots : j <= i
                     ext == SubSeq(filename, last + 1, Len(filename))
                 IN  lang = IF Lower(ext) = <<"p", "y">> THEN <<"p", "y", "t", "h", "o", "n">>
                            ELSE IF Lower(ext) = <<"j", "s">> THEN <<"j", "s">>
                            ELSE Lower(ext)

\* C12 witness: "x.T" has given the tag "t"
C12_Witness ==
    /\ pc = "done"
    /\ filename = <<"x", ".", "T">>
    /\ lang = <<"t">>

(***************************************************************************)
(* SpecScan: convert_line_content, one iteration of "for c in lc" per      *)
(* step, then the return.                                                  *)
(***************************************************************************)
ScanChars == {"[", "]", BT, "a"}

ScanInputs == UNION {[1..k -> ScanChars] : k \in 0..MaxScanLen}

InitScan ==
    /\ pc = "scan"
    /\ lc \in ScanInputs
    /\ pos = 1
    /\ scan = ScanInit
    /\ lc_out = <<>>
    /\ warnings = <<>>
    /\ LinkishIdle /\ LineIdle /\ PageIdle /\ LangIdle /\ MainIdle

\* one iteration of the loop, in the mode m
ScanChar(m) ==
    /\ pc = "scan" /\ pos <= Len(lc)
    /\ scan.mode = m
    /\ scan' = ScanStep(scan, lc[pos])
    /\ warnings' = scan'.log
    /\ pos' = pos + 1
    /\ UNCHANGED <<pc, lc, lc_out, content, entire_line, result, line, out_line,
                   lines, idx, in_codeblock, md_lines, text, opens, closes,
                   langVars, mainVars>>

\* lines 125-133: a character read in plain mode
ScanPlain == ScanChar("None")

\* lines 134-139: a character read in code-span mode
ScanCode == ScanChar("code")

\* lines 140-148: a character read in bracket-span mode
ScanLink == ScanChar("link")

\* ScanReturn with the accumulation of an open bracket span written out
ScanReturn_flush ==
    /\ pc = "scan" /\ pos > Len(lc)
    /\ lc_out' = scan.res \o (IF scan.mode = "link" THEN <<"[">> \o scan.link_accum ELSE <<>>)
    /\ pc' = "done"
    /\ UNCHANGED <<lc, pos, scan, warnings, content, entire_line, result, line, out_line,
                   lines, idx, in_codeblock, md_lines, text, opens, closes,
                   langVars, mainVars>>

\* line 150: the return at the end of the line
ScanReturn ==
    /\ pc = "scan" /\ pos > Len(lc)
    /\ lc_out' = scan.res
    /\ pc' = "done"
    /\ UNCHANGED <<lc, pos, scan, warnings, content, entire_line, result, line, out_line,
                   lines, idx, in_codeblock, md_lines, text, opens, closes,
                   langVars, mainVars>>

NextScan == ScanPlain \/ ScanCode \/ ScanLink \/ ScanReturn

SpecScan == InitScan /\ [][NextScan]_vars

\* C14: a backtick read in bracket-span mode switches to code-span mode and
\* is copied, with no span decision (no warning) for the accumulated
\* characters; these never reach a later span decision, because whenever
\* the scanner is in bracket-span mode the accumulator is the stretch of
\* the line from after an opening "[" to the current position, without a
\* backtick; and a "]" read in plain mode is copied verbatim.
C14_BacktickInterruptsSpan ==
    [][/\ (pc = "scan" /\ pos <= Len(lc) /\ scan.mode = "link" /\ lc[pos] = BT) =>
              /\ scan'.mode = "code"
              /\ scan'.res = Append(scan.res, BT)
              /\ warnings' = warnings
       /\ (pc = "scan" /\ pos <= Len(lc) /\ scan.mode = "None" /\ lc[pos] = "]") =>
              /\ scan'.mode = "None"
              /\ scan'.res = Append(scan.res, "]")
       /\ scan'.mode = "link" =>
              \E k \in 1..(pos' - 1) :
                  /\ lc'[k] = "["
                  /\ scan'.link_accum = SubSeq(lc', k + 1, pos' - 1)
                  /\ \A i \in (k + 1)..(pos' - 1) : lc'[i] # BT]_vars

\* C14 witness: "[a", backtick, "a", backtick, "]" has been converted to
\* backtick, "a", backtick, "]"
C14_Witness ==
    /\ pc = "done"
    /\ lc = <<"[", "a", BT, "a", BT, "]">>
    /\ lc_out = <<BT, "a", BT, "]">>

\* C15: when the end of the line is reached in bracket-span mode, the
\* output is exactly the conversion of the line before the unterminated
\* "[": the "[" and the accumulated characters are absent, no span
\* decision was made for them (no warning beyond those of that prefix), and
\* the conversion returns normally.
C15_UnterminatedSpanDropped ==
    (pc = "done" /\ scan.mode = "link") =>
        \E k \in 1..Len(lc) :
            /\ lc[k] = "["
            /\ scan.link_accum = SubSeq(lc, k + 1, Len(lc))
            /\ lc_out = convert_line_content(SubSeq(lc, 1, k - 1)).out
            /\ warnings = convert_line_content(SubSeq(lc, 1, k - 1)).log

\* C15 witness: "a[aa" has been converted to "a"
C15_Witness ==
    /\ pc = "done"
    /\ lc = <<"a", "[", "a", "a">>
    /\ scan.mode = "link"
    /\ lc_out = <<"a">>

\* C16: every character read in code-span mode is appended to the output
\* unchanged, "[" and "]" included, with no span decision (no warning);
\* a backtick ends the mode; at the end of the line an open code span has
\* lost nothing: the output ends with the line from its opening backtick on.
C16_CodeSpanVerbatim ==
    [][/\ (pc = "scan" /\ pos <= Len(lc) /\ scan.mode = "code") =>
              /\ scan'.res = Append(scan.res, lc[pos])
              /\ warnings' = warnings
              /\ scan'.mode = IF lc[pos] = BT THEN "None" ELSE "code"
       /\ (pc = "scan" /\ pos > Len(lc) /\ scan.mode = "code") =>
              \E k \in 1..Len(lc) :
                  /\ lc[k] = BT
                  /\ \A i \in (k + 1)..Len(lc) : lc[i] # BT
                  /\ Len(lc_out') >= Len(lc) - k + 1
                  /\ SubSeq(lc_out', Len(lc_out') - (Len(lc) - k), Len(lc_out'))
                         = SubSeq(lc, k, Len(lc))]_vars

\* C16 witness: backtick, "[a]" (an open code span) has been converted to itself
C16_Witness ==
    /\ pc = "done"
    /\ lc = <<BT, "[", "a", "]">>
    /\ lc_out = <<BT, "[", "a", "]">>

(***************************************************************************)
(* convert_page as a function of the lines of a page.                      *)
(***************************************************************************)
\* the body of "for line in page_json['lines']"; st = [in_codeblock, md_lines]
PageStep(st, l) ==
    IF st.in_codeblock THEN
        IF StartsWith(l, <<" ">>) THEN
            [st EXCEPT !.md_lines = Append(@, RemovePrefix(l, <<" ">>))]
        ELSE
            [st EXCEPT !.in_codeblock = FALSE, !.md_lines = Append(@, FENCE)]
    ELSE
        IF StartsWith(l, CODE_PREFIX) THEN
            LET fname == RemovePrefix(l, CODE_PREFIX)
            IN  [st EXCEPT !.in_codeblock = TRUE,
                           !.md_lines = @ \o <<<<BT>> \o fname \o <<BT>>,
                                               FENCE \o convert_filename_to_lang(fname)>>]
        ELSE
            [st EXCEPT !.md_lines = Append(@, convert_normal_line(l).out)]

\* the locals after the first n lines of ls
RECURSIVE PageLoop(_, _)
PageLoop(ls, n) ==
    IF n = 0 THEN [in_codeblock |-> FALSE, md_lines |-> <<>>]
    ELSE PageStep(PageLoop(ls, n - 1), ls[n])

convert_page(ls) ==
    LET st == PageLoop(ls, Len(ls))
        closed == IF st.in_codeblock THEN Append(st.md_lines, FENCE) ELSE st.md_lines
    IN  Join(closed \o <<<<>>>>)

(***************************************************************************)
(* SpecMain: the loop of __main__ over the pages of a corpus.  A page is   *)
(* converted by the steps of Spec; its file is opened (and truncated)      *)
(* before convert_page runs and written when it has returned.              *)
(***************************************************************************)
FORBIDDEN_CHARS == <<"/", "\\", "<", ">", ":", "\"", "|", "?", "*">>
MD_SUFFIX == <<".", "m", "d">>

\* str.replace(c, "_") for a one-character c
Replace(t, c) == [i \in 1..Len(t) |-> IF t[i] = c THEN "_" ELSE t[i]]

\* lines 223-224: title after the first n characters of FORBIDDEN_CHARS
RECURSIVE SanitizeUpTo(_, _)
SanitizeUpTo(t, n) ==
    IF n = 0 THEN t ELSE Replace(SanitizeUpTo(t, n - 1), FORBIDDEN_CHARS[n])

\* open(path, "w") ... f.write(body): the files after writing body to name
WriteFile(fs, name, body) ==
    [n \in (DOMAIN fs) \cup {name} |-> IF n = name THEN body ELSE fs[n]]

Titles == {<<"A", "/", "B">>, <<"A", "_", "B">>, <<"C">>}

LineLists ==
    {<<<<"c", "o", "d", "e", ":", "x", ".", "p", "y">>, <<" ", "p">>>>,
     <<<<"c", "o", "d", "e", ":", "x", ".", "p", "y">>, <<"d">>>>,
     <<<<" ", "p">>>>,
     <<<<"d">>>>}

CorpusPages == [title : Titles, lines : LineLists]

\* the corpora of at most MaxPages pages, the titles of a corpus distinct
Corpora ==
    {d \in UNION {[1..k -> CorpusPages] : k \in 0..MaxPages} :
        \A i, j \in 1..Len(d) : i # j => d[i].title # d[j].title}

InitMain ==
    /\ pc = "main"
    /\ data \in Corpora
    /\ page_no = 1
    /\ title = <<>>
    /\ files = <<>>
    /\ warnings = <<>>
    /\ LinkishIdle /\ LineIdle /\ PageIdle /\ LangIdle /\ ScanIdle

\* BeginPage that keeps md_lines of the page before
BeginPage_keep_md_lines ==
    /\ pc = "main" /\ page_no <= Len(data)
    /\ title' = SanitizeUpTo(data[page_no].title, Len(FORBIDDEN_CHARS))
    /\ files' = WriteFile(files, title' \o MD_SUFFIX, <<>>)
    /\ lines' = data[page_no].lines
    /\ idx' = 1
    /\ md_lines' = md_lines
    /\ in_codeblock' = FALSE
    /\ opens' = 0
    /\ closes' = 0
    /\ pc' = "loop"
    /\ UNCHANGED <<data, page_no, text, warnings, content, entire_line, result,
                   line, out_line, langVars, scanVars>>

\* lines 220-226 up to the call of convert_page, and lines 184-185
BeginPage ==
    /\ pc = "main" /\ page_no <= Len(data)
    /\ title' = SanitizeUpTo(data[page_no].title, Len(FORBIDDEN_CHARS))
    /\ files' = WriteFile(files, title' \o MD_SUFFIX, <<>>)
    /\ lines' = data[page_no].lines
    /\ idx' = 1
    /\ md_lines' = <<>>
    /\ in_codeblock' = FALSE
    /\ opens' = 0
    /\ closes' = 0
    /\ pc' = "loop"
    /\ UNCHANGED <<data, page_no, text, warnings, content, entire_line, result,
                   line, out_line, langVars, scanVars>>

\* line 226: f.write of the returned text, and the next page
WritePage ==
    /\ pc = "done" /\ page_no <= Len(data)
    /\ files' = WriteFile(files, title \o MD_SUFFIX, text)
    /\ page_no' = page_no + 1
    /\ pc' = "main"
    /\ UNCHANGED <<data, title, lines, idx, in_codeblock, md_lines, text, warnings,
                   opens, closes, content, entire_line, result, line, out_line,
                   langVars, scanVars>>

\* the end of the loop of line 220
Exit ==
    /\ pc = "main" /\ page_no > Len(data)
    /\ pc' = "exit"
    /\ UNCHANGED <<data, page_no, title, files, lines, idx, in_codeblock, md_lines,
                   text, warnings, opens, closes, content, entire_line, result,
                   line, out_line, langVars, scanVars>>

NextMain ==
    \/ BeginPage \/ CodeLine \/ CloseFence \/ OpenFence \/ NormalLine \/ EndPage
    \/ WritePage \/ Exit

SpecMain == InitMain /\ [][NextMain]_vars

\* C11: after a run there is one file per page: for every page the file
\* named by its title, each of / \ < > : " | ? * replaced by _, and ".md"
\* exists and holds the transcoding of the lines of that page, and a corpus
\* of k pages has produced k files.
C11_OneFilePerPage ==
    pc = "exit" =>
        /\ \A i \in 1..Len(data) :
               LET t == data[i].title
                   name == [k \in 1..Len(t) |->
                               IF t[k] \in {"/", "\\", "<", ">", ":", "\"", "|", "?", "*"}
                               THEN "_" ELSE t[k]] \o <<".", "m", "d">>
               IN  /\ name \in DOMAIN files
                   /\ files[name] = convert_page(data[i].lines)
        /\ Cardinality(DOMAIN files) = Len(data)

\* C17: the text returned for a page is the function convert_page of the
\* lines of that page alone, wherever the page stands in the corpus and
\* whatever the pages before it left behind; every page starts outside a
\* code region with nothing emitted.
C17_PageTextDependsOnOwnLines ==
    /\ pc = "done" => text = convert_page(data[page_no].lines)
    /\ (pc = "loop" /\ idx = 1) => (~in_codeblock /\ md_lines = <<>>)

\* C17 witness: the page " p" has been converted to "* p" after a page that
\* ended inside a code region
C17_Witness ==
    /\ pc = "done"
    /\ page_no = 2
    /\ data[1].lines = <<<<"c", "o", "d", "e", ":", "x", ".", "p", "y">>, <<" ", "p">>>>
    /\ data[2].lines = <<<<" ", "p">>>>
    /\ text = <<"*", " ", "p", "\n">>

====
